---- MODULE Spec2Model ----
(***************************************************************************)
(* Model of the dependency visualizer of src/практика2.py: the APKINDEX    *)
(* parser, the memoizing dependency collector, the recursive tree builder, *)
(* the two renderers and the main pipeline.                                *)
(*                                                                         *)
(* Python strings are modelled as sequences of one-character strings, so   *)
(* that strip, split, startswith, re.sub, replace and the substring test   *)
(* are computed character by character, as the code computes them.         *)
(***************************************************************************)
EXTENDS Integers, Sequences, FiniteSets, TLC

\* ------------------------------------------------------------------ bounds

\* Most lines of an index text the parser specification enumerates.
MaxLines == 3

\* Largest max_depth the tree-builder specification enumerates.
MaxDepthArg == 5

\* Most top-level resolver calls of the resolver specification.
MaxCalls == 3

\* Most outermost build calls a caller makes on one DependencyGraph.
MaxBuilds == 2

\* Largest max_depth of the builds the renderer specification renders.
MaxRenderDepth == 2

\* --------------------------------------------------------- string helpers

\* Characters str.strip() and str.split() treat as whitespace.
Whitespace == {" ", "\t", "\r"}

\* s[i:] for a 0-based Python index i.
DropFirst(s, i) == SubSeq(s, i + 1, Len(s))

\* s.startswith(p)
StartsWith(s, p) == Len(s) >= Len(p) /\ SubSeq(s, 1, Len(p)) = p

RECURSIVE LStrip(_)
LStrip(s) ==
    IF s # <<>> /\ Head(s) \in Whitespace THEN LStrip(Tail(s)) ELSE s

RECURSIVE RStrip(_)
RStrip(s) ==
    IF s # <<>> /\ s[Len(s)] \in Whitespace
    THEN RStrip(SubSeq(s, 1, Len(s) - 1))
    ELSE s

\* s.strip()
Strip(s) == RStrip(LStrip(s))

\* s.split(sep) for a one-character separator: empty pieces are kept.
SplitOn(s, sep) ==
    LET at == {i \in 1..Len(s) : s[i] = sep}
        \* the position of the k-th separator; 0 and Len(s) + 1 bracket them
        pos(k) == IF k = 0 THEN 0
                  ELSE IF k > Cardinality(at) THEN Len(s) + 1
                  ELSE CHOOSE i \in at : Cardinality({j \in at : j < i}) = k - 1
    IN  [k \in 1..(Cardinality(at) + 1) |->
            SubSeq(s, pos(k - 1) + 1, pos(k) - 1)]

\* s.split(): pieces between runs of whitespace, empty pieces dropped.
RECURSIVE SplitWsFrom(_, _, _)
SplitWsFrom(s, i, piece) ==
    IF i > Len(s) THEN (IF piece = <<>> THEN <<>> ELSE <<piece>>)
    ELSE IF s[i] \in Whitespace
         THEN (IF piece = <<>> THEN <<>> ELSE <<piece>>)
              \o SplitWsFrom(s, i + 1, <<>>)
         ELSE SplitWsFrom(s, i + 1, Append(piece, s[i]))

SplitWs(s) == SplitWsFrom(s, 1, <<>>)

\* sep.join(parts)
RECURSIVE Join(_, _)
Join(parts, sep) ==
    IF parts = <<>> THEN <<>>
    ELSE IF Len(parts) = 1 THEN parts[1]
    ELSE parts[1] \o sep \o Join(Tail(parts), sep)

\* sub in s
Contains(s, sub) ==
    \E i \in 1..(Len(s) - Len(sub) + 1) : SubSeq(s, i, i + Len(sub) - 1) = sub

\* s.replace(old, new) for one-character old and new.
ReplaceChar(s, old, new) ==
    [i \in 1..Len(s) |-> IF s[i] = old THEN new ELSE s[i]]

\* x in list
InSeq(x, xs) == \E i \in 1..Len(xs) : xs[i] = x

\* The elements of a list, as a set.
Range(xs) == {xs[i] : i \in 1..Len(xs)}

\* ------------------------------------------------------- string constants

\* Python's None and a value are told apart by the length of a sequence:
\* <<>> is None, <<v>> is the value v.
None == <<>>
Some(v) == <<v>>

Str_P == <<"P", ":">>
Str_V == <<"V", ":">>
Str_D == <<"D", ":">>
Str_so == <<"s", "o", ":">>
Str_latest == <<"l", "a", "t", "e", "s", "t">>
Str_a == <<"a">>
Str_b == <<"b">>
Str_c == <<"c">>
Str_1 == <<"1">>
Str_2 == <<"2">>

\* The characters of the character class [<=>] of the version pattern.
VersionOps == {"<", "=", ">"}

\* ------------------------------------------------------------- the state

VARIABLES
    content,          \* the index text handed to parse_apkindex
    lines,            \* content.split('\n')
    lineNo,           \* position of the for loop over lines (1-based)
    packages,         \* parse_apkindex: the dict of committed packages
    current_package,  \* parse_apkindex: None or the package being read
    ppc,              \* parse_apkindex: "start", "loop" or "done"
    config,           \* the configuration dict the collector holds
    dependencies_cache, \* DependencyCollector.dependencies_cache
    call,             \* the arguments of the last get_package_dependencies call
    ret,              \* what that call did: the list it returned, or raised
    ncalls,           \* how many top-level calls the caller has made
    visited,          \* DependencyGraph.visited
    stack,            \* the frames of build_dependency_tree, innermost last
    tree,             \* None, or the tree the outermost call returned
    bpc,              \* the build: "idle", "building", "returned", "raised"
    failed,           \* the packages whose resolution raised in this build
    build_args,       \* None, or the arguments of the outermost build call
    built,            \* the earlier outermost calls on this graph that returned
    graphviz_code,    \* None, or the text generate_graphviz returned
    ascii_out,        \* None, or the text generate_ascii_tree returned
    mpc,              \* main: the statement the process is at
    exit_status,      \* None while the process runs, then its exit status
    dot_file,         \* None, or the name and text of the .dot file written
    demo_i            \* demonstrate_multiple_packages: position in its list

parserVars == <<content, lines, lineNo, packages, current_package, ppc>>
parserLocals == <<lines, lineNo, packages, current_package, ppc>>
resolverVars == <<config, dependencies_cache, call, ret, ncalls>>

builderVars == <<visited, stack, tree, bpc, failed, build_args, built>>
renderVars == <<graphviz_code, ascii_out>>
mainVars == <<mpc, exit_status, dot_file, demo_i>>

vars == <<parserVars, resolverVars, builderVars, renderVars, mainVars>>

\* The configuration dict: the fields of parse_arguments the model reads.
Config(package, version, filter, max_depth, ascii_tree) ==
    [package |-> package, version |-> version, filter |-> filter,
     max_depth |-> max_depth, ascii_tree |-> ascii_tree]

NoConfig == Config(<<>>, <<>>, <<>>, 0, FALSE)

\* ---------------------------------------------------------- parse_apkindex

\* The empty dict.
EmptyDict == [k \in {} |-> k]

\* d[k] = v
DictPut(d, k, v) == [x \in DOMAIN d \cup {k} |-> IF x = k THEN v ELSE d[x]]

\* Mutant of CleanDep: the token is kept as it is.
CleanDep_Unchanged(dep) == dep

\* re.sub(r'[<=>].*', '', dep): dep up to its first comparison character.
RECURSIVE CleanDep(_)
CleanDep(dep) ==
    IF dep = <<>> \/ Head(dep) \in VersionOps THEN <<>>
    ELSE <<Head(dep)>> \o CleanDep(Tail(dep))

\* The test of line 70 that lets a token through to cleaning.
KeepToken(dep) == dep # <<>> /\ dep # Str_so

\* One iteration of the loop of lines 69-74 over the tokens of a D: line.
AddDep(deps, dep) ==
    IF KeepToken(dep)
    THEN LET clean_dep == CleanDep(dep)
         IN  IF clean_dep # <<>> /\ ~InSeq(clean_dep, deps)
             THEN Append(deps, clean_dep)
             ELSE deps
    ELSE deps

RECURSIVE AddDeps(_, _)
AddDeps(deps, tokens) ==
    IF tokens = <<>> THEN deps
    ELSE AddDeps(AddDep(deps, Head(tokens)), Tail(tokens))

\* Mutant of CommitCurrent: an entry the dict already holds is kept.
CommitCurrent_FirstWins(pkgs, cur) ==
    IF cur # None /\ cur[1].name \notin DOMAIN pkgs
    THEN [x \in DOMAIN pkgs \cup {cur[1].name} |->
             IF x = cur[1].name THEN cur[1] ELSE pkgs[x]]
    ELSE pkgs

\* packages[current_package['name']] = current_package, when there is one.
CommitCurrent(pkgs, cur) ==
    IF cur # None THEN DictPut(pkgs, cur[1].name, cur[1]) ELSE pkgs

NewPackage(line) ==
    [name |-> DropFirst(line, 2), dependencies |-> <<>>, version |-> <<>>]

\* The body of the for loop (lines 55-74) on one raw line: the parser's
\* state [packages, current_package] after it.
ParseLine(pkgs, cur, raw) ==
    LET line == Strip(raw) IN
    IF StartsWith(line, Str_P)
    THEN [packages |-> CommitCurrent(pkgs, cur),
          current_package |-> Some(NewPackage(line))]
    ELSE IF StartsWith(line, Str_V) /\ cur # None
    THEN [packages |-> pkgs,
          current_package |->
              Some([cur[1] EXCEPT !.version = DropFirst(line, 2)])]
    ELSE IF StartsWith(line, Str_D) /\ cur # None
    THEN [packages |-> pkgs,
          current_package |->
              Some([cur[1] EXCEPT !.dependencies =
                       AddDeps(@, SplitWs(DropFirst(line, 2)))])]
    ELSE [packages |-> pkgs, current_package |-> cur]

RECURSIVE ParseLines(_, _, _)
ParseLines(pkgs, cur, ls) ==
    IF ls = <<>> THEN CommitCurrent(pkgs, cur)
    ELSE LET st == ParseLine(pkgs, cur, Head(ls))
         IN  ParseLines(st.packages, st.current_package, Tail(ls))

\* parse_apkindex(content) as a function of the text.
parse_apkindex(text) == ParseLines(EmptyDict, None, SplitOn(text, "\n"))

\* Lines 51-54: the locals are initialised and the text is split.
ParseStart ==
    /\ ppc = "start"
    /\ lines' = SplitOn(content, "\n")
    /\ lineNo' = 1
    /\ packages' = EmptyDict
    /\ current_package' = None
    /\ ppc' = "loop"
    /\ UNCHANGED <<content, resolverVars, builderVars, renderVars, mainVars>>

\* Lines 54-74: one iteration of the loop over the lines.
ParseLoop ==
    /\ ppc = "loop"
    /\ lineNo <= Len(lines)
    /\ LET st == ParseLine(packages, current_package, lines[lineNo])
       IN  /\ packages' = st.packages
           /\ current_package' = st.current_package
    /\ lineNo' = lineNo + 1
    /\ UNCHANGED <<content, lines, ppc, resolverVars, builderVars,
                   renderVars, mainVars>>

\* Lines 76-80: the last package is committed and the dict is returned.
ParseReturn ==
    /\ ppc = "loop"
    /\ lineNo > Len(lines)
    /\ packages' = CommitCurrent(packages, current_package)
    /\ ppc' = "done"
    /\ UNCHANGED <<content, lines, lineNo, current_package, resolverVars,
                   builderVars, renderVars, mainVars>>

\* The lines the parser specification builds index texts from.
ParseLineSet ==
    { Str_P \o Str_a,
      Str_P \o Str_b,
      Str_V \o Str_1,
      Str_D \o Str_b \o <<" ">> \o Str_so \o Str_c,
      Str_D \o Str_a \o <<">", "=", "1", " ", " ">> \o Str_b \o <<" ">> \o Str_so,
      <<>>,
      <<" ">> }

\* The index texts of at most n lines over a set of lines.
RECURSIVE TextsOver(_, _)
TextsOver(lineSet, n) ==
    IF n = 0 THEN {}
    ELSE LET shorter == TextsOver(lineSet, n - 1)
         IN  lineSet \cup shorter
             \cup {t \o <<"\n">> \o l : t \in shorter, l \in lineSet}

\* No parse_apkindex call is being stepped through.
ParserIdle ==
    /\ lines = <<>>
    /\ lineNo = 0
    /\ packages = EmptyDict
    /\ current_package = None
    /\ ppc = "idle"

\* No collector is in use.
ResolverIdle ==
    /\ config = NoConfig
    /\ dependencies_cache = EmptyDict
    /\ call = None
    /\ ret = None
    /\ ncalls = 0

\* No DependencyGraph is in use.
BuilderIdle ==
    /\ visited = {}
    /\ stack = <<>>
    /\ tree = None
    /\ bpc = "idle"
    /\ failed = {}
    /\ build_args = None
    /\ built = <<>>

\* Nothing has been rendered.
RenderIdle ==
    /\ graphviz_code = None
    /\ ascii_out = None

\* No process is running.
MainIdle ==
    /\ mpc = "idle"
    /\ exit_status = None
    /\ dot_file = None
    /\ demo_i = 0

InitParse ==
    /\ content \in TextsOver(ParseLineSet, MaxLines)
    /\ lines = <<>>
    /\ lineNo = 0
    /\ packages = EmptyDict
    /\ current_package = None
    /\ ppc = "start"
    /\ ResolverIdle
    /\ BuilderIdle
    /\ RenderIdle
    /\ MainIdle

NextParse == ParseStart \/ ParseLoop \/ ParseReturn

SpecParse == InitParse /\ [][NextParse]_vars

\* ------------------------------------------------ get_package_dependencies

\* Line 84: f"{package_name}_{version}"
CacheKey(package_name, version) == package_name \o <<"_">> \o version

\* Lines 94-99: the package of that name whose version the selector accepts.
FindPackage(pkgs, package_name, version) ==
    IF /\ package_name \in DOMAIN pkgs
       /\ (version = Str_latest \/ pkgs[package_name].version = version)
    THEN Some(pkgs[package_name])
    ELSE None

\* [dep for dep in dependencies if filter in dep]
RECURSIVE FilterDeps(_, _)
FilterDeps(deps, filter) ==
    IF deps = <<>> THEN <<>>
    ELSE (IF Contains(Head(deps), filter) THEN <<Head(deps)>> ELSE <<>>)
         \o FilterDeps(Tail(deps), filter)

\* Lines 104-108: the filter is applied when config['filter'] is non-empty.
ApplyFilter(deps, filter) ==
    IF filter # <<>> THEN FilterDeps(deps, filter) ELSE deps

\* Lines 85-86: what a call returns when its key is in the cache.
CacheHit(cache, cache_key) == cache[cache_key]

\* Lines 82-114. fetch_ok says whether fetch_repository_data returns the
\* text or raises. The result: the cache after the call, whether the call
\* raised, and the list it returned.
get_package_dependencies(cache, filter, text, fetch_ok, package_name, version) ==
    LET cache_key == CacheKey(package_name, version) IN
    IF cache_key \in DOMAIN cache
    THEN [cache |-> cache, raised |-> FALSE,
          value |-> CacheHit(cache, cache_key)]
    ELSE IF ~fetch_ok
    THEN [cache |-> cache, raised |-> TRUE, value |-> <<>>]
    ELSE LET target_package ==
                 FindPackage(parse_apkindex(text), package_name, version)
         IN  IF target_package = None
             THEN [cache |-> cache, raised |-> TRUE, value |-> <<>>]
             ELSE LET dependencies ==
                          ApplyFilter(target_package[1].dependencies, filter)
                  IN  [cache |-> DictPut(cache, cache_key, dependencies),
                       raised |-> FALSE,
                       value |-> dependencies]

\* A caller calls get_package_dependencies on the collector.
Resolve(package_name, version, fetch_ok) ==
    /\ ncalls < MaxCalls
    /\ LET r == get_package_dependencies(dependencies_cache, config.filter,
                    content, fetch_ok, package_name, version)
       IN  /\ dependencies_cache' = r.cache
           /\ ret' = Some([raised |-> r.raised, value |-> r.value])
    /\ call' = Some([package_name |-> package_name, version |-> version,
                     filter |-> config.filter,
                     hit |-> CacheKey(package_name, version)
                                 \in DOMAIN dependencies_cache])
    /\ ncalls' = ncalls + 1
    /\ UNCHANGED <<config, parserVars, builderVars, renderVars, mainVars>>

\* The collector keeps the caller's configuration dict by reference
\* (line 15) and reads config['filter'] anew on every cache miss (line 106):
\* the caller gives the next call another filter by assigning it.
SetFilter(filter) ==
    /\ ncalls < MaxCalls
    /\ filter # config.filter
    /\ config' = [config EXCEPT !.filter = filter]
    /\ UNCHANGED <<dependencies_cache, call, ret, ncalls, parserVars,
                   builderVars, renderVars, mainVars>>

Str_ab == <<"a", "b">>
Str_a_b == <<"a", "_", "b">>
Str_b_1 == <<"b", "_", "1">>
NL == <<"\n">>
SP == <<" ">>

\* The index texts of the resolver specification.
ResolveText1 ==
    Str_P \o Str_a \o NL \o Str_V \o Str_1 \o NL
    \o Str_D \o Str_b \o SP \o Str_ab \o <<">", "=", "2">> \o SP
             \o Str_so \o Str_c \o SP \o Str_c \o NL
    \o NL
    \o Str_P \o Str_b \o NL \o Str_V \o Str_2 \o NL
    \o Str_D \o Str_a \o <<"<", "3">> \o NL

ResolveText2 ==
    Str_P \o Str_a \o NL \o Str_V \o Str_b_1 \o NL
    \o Str_D \o Str_b \o NL
    \o NL
    \o Str_P \o Str_a_b \o NL \o Str_V \o Str_1 \o NL
    \o Str_D \o Str_c \o NL

\* b with tokens that repeat, that clean to the same name and that are
\* empty once cleaned, over two D: lines.
ResolveText3 ==
    Str_P \o Str_b \o NL \o Str_V \o Str_1 \o NL
    \o Str_D \o Str_b \o <<">", "=", "1">> \o SP \o <<"=", "2">> \o SP
             \o Str_b \o <<"<", "3">> \o SP \o Str_so \o Str_c \o SP
             \o Str_c \o <<"=", "1">> \o SP \o Str_b \o NL
    \o Str_D \o Str_c \o SP \o Str_ab \o NL

ResolveTexts == {ResolveText1, ResolveText2, ResolveText3}
ResolveNames == {Str_a, Str_b, Str_a_b}
ResolveVersions == {Str_latest, Str_1, Str_b_1}
Filters == {<<>>, Str_b}

InitResolve ==
    /\ content \in ResolveTexts
    /\ ParserIdle
    /\ \E f \in Filters : config = Config(Str_a, Str_latest, f, 1, FALSE)
    /\ dependencies_cache = EmptyDict
    /\ call = None
    /\ ret = None
    /\ ncalls = 0
    /\ BuilderIdle
    /\ RenderIdle
    /\ MainIdle

NextResolve ==
    \/ \E n \in ResolveNames, v \in ResolveVersions, ok \in BOOLEAN :
           Resolve(n, v, ok)
    \/ \E f \in Filters : SetFilter(f)

SpecResolve == InitResolve /\ [][NextResolve]_vars

\* ---------------------------------------------------- build_dependency_tree

\* {'name': package, 'children': children}
Node(name, children) == [name |-> name, children |-> children]
Leaf(name) == Node(name, <<>>)

\* A frame of build_dependency_tree: its arguments and its locals.
Frame(package, depth, max_depth) ==
    [package |-> package, depth |-> depth, max_depth |-> max_depth,
     phase |-> "enter", dependencies |-> <<>>, i |-> 1, children |-> <<>>]

\* Mutants of LeafCase: the guard left out; the depth test off by one; the
\* visited test left out.
LeafCase_NoGuard(package, depth, max_depth, vis) == FALSE
LeafCase_DepthOffByOne(package, depth, max_depth, vis) ==
    depth >= max_depth \/ package \in vis
LeafCase_DepthOnly(package, depth, max_depth, vis) == depth > max_depth

\* Line 149: the call returns a leaf without expanding.
LeafCase(package, depth, max_depth, vis) ==
    depth > max_depth \/ package \in vis

\* Line 159: the depth handed to the call for a child.
ChildDepth(depth) == depth + 1

\* Mutant of ExceptClause: the exception is passed on to the caller.
ExceptClause_Reraise(package) == [raised |-> TRUE, tree |-> Leaf(package)]

\* Lines 164-165: what the call does with an exception of its try block:
\* whether it raises, and the tree it returns when it does not.
ExceptClause(package) == [raised |-> FALSE, tree |-> Leaf(package)]

\* The frames the model lets the recursion reach; the code never needs more
\* than max_depth + 2.
MaxStack == MaxDepthArg + 3

\* The innermost call returns t: the outermost call hands it to the caller,
\* any other to line 160 of the frame below, which appends it and goes on
\* to its next dependency.
ReturnTree(t) ==
    LET below == SubSeq(stack, 1, Len(stack) - 1) IN
    IF below = <<>>
    THEN /\ stack' = <<>>
         /\ tree' = Some(t)
         /\ bpc' = "returned"
    ELSE /\ stack' = [below EXCEPT ![Len(below)] =
                         [@ EXCEPT !.children = Append(@, t), !.i = @ + 1]]
         /\ UNCHANGED <<tree, bpc>>

\* Lines 149-150: the guard holds and the call returns a leaf.
BuildLeaf ==
    /\ bpc = "building"
    /\ stack # <<>>
    /\ LET top == stack[Len(stack)] IN
       /\ top.phase = "enter"
       /\ LeafCase(top.package, top.depth, top.max_depth, visited)
       /\ ReturnTree(Leaf(top.package))
    /\ UNCHANGED <<visited, failed, build_args, built, content, parserLocals,
                   resolverVars, renderVars, mainVars>>

\* Lines 152-156 and 164-165: the package is marked visited and resolved
\* (version 'latest'); when that raises, the except clause decides.
BuildExpand(fetch_ok) ==
    /\ bpc = "building"
    /\ stack # <<>>
    /\ LET top == stack[Len(stack)]
           r == get_package_dependencies(dependencies_cache, config.filter,
                    content, fetch_ok, top.package, Str_latest)
       IN
       /\ top.phase = "enter"
       /\ ~LeafCase(top.package, top.depth, top.max_depth, visited)
       /\ visited' = visited \cup {top.package}
       /\ dependencies_cache' = r.cache
       /\ IF r.raised
          THEN /\ failed' = failed \cup {top.package}
               /\ LET e == ExceptClause(top.package) IN
                  IF e.raised
                  THEN /\ stack' = <<>>
                       /\ bpc' = "raised"
                       /\ UNCHANGED tree
                  ELSE ReturnTree(e.tree)
          ELSE /\ stack' = [stack EXCEPT ![Len(stack)] =
                               [@ EXCEPT !.phase = "loop",
                                         !.dependencies = r.value]]
               /\ UNCHANGED <<tree, bpc, failed>>
    /\ UNCHANGED <<config, call, ret, ncalls, build_args, built, content,
                   parserLocals, renderVars, mainVars>>

\* Lines 158-159: the loop calls build_dependency_tree for the next dependency.
BuildRecurse ==
    /\ bpc = "building"
    /\ stack # <<>>
    /\ Len(stack) < MaxStack
    /\ LET top == stack[Len(stack)] IN
       /\ top.phase = "loop"
       /\ top.i <= Len(top.dependencies)
       /\ stack' = Append(stack, Frame(top.dependencies[top.i],
                                      ChildDepth(top.depth), top.max_depth))
    /\ UNCHANGED <<visited, tree, bpc, failed, build_args, built, content,
                   parserLocals, resolverVars, renderVars, mainVars>>

\* Line 162: the loop is over and the call returns its node.
BuildReturn ==
    /\ bpc = "building"
    /\ stack # <<>>
    /\ LET top == stack[Len(stack)] IN
       /\ top.phase = "loop"
       /\ top.i > Len(top.dependencies)
       /\ ReturnTree(Node(top.package, top.children))
    /\ UNCHANGED <<visited, failed, build_args, built, content, parserLocals,
                   resolverVars, renderVars, mainVars>>

BuildStep ==
    \/ BuildLeaf
    \/ \E fetch_ok \in BOOLEAN : BuildExpand(fetch_ok)
    \/ BuildRecurse
    \/ BuildReturn

\* ---------------------------------------------------------------- renderers

\* The literal strings of generate_graphviz and of test_packages.
Lit_digraph ==
    <<"d", "i", "g", "r", "a", "p", "h", " ", "D", "e", "p", "e", "n", "d",
    "e", "n", "c", "y", "T", "r", "e", "e", " ", "{">>
Lit_rankdir ==
    <<" ", " ", " ", " ", "r", "a", "n", "k", "d", "i", "r", "=", "T", "B",
    ";">>
Lit_node_style ==
    <<" ", " ", " ", " ", "n", "o", "d", "e", " ", "[", "s", "h", "a", "p",
    "e", "=", "b", "o", "x", ",", " ", "s", "t", "y", "l", "e", "=", "f",
    "i", "l", "l", "e", "d", ",", " ", "f", "i", "l", "l", "c", "o", "l",
    "o", "r", "=", "l", "i", "g", "h", "t", "b", "l", "u", "e", "]", ";">>
Lit_edge_style ==
    <<" ", " ", " ", " ", "e", "d", "g", "e", " ", "[", "a", "r", "r", "o",
    "w", "h", "e", "a", "d", "=", "v", "e", "e", "]", ";">>
Lit_close == <<"}">>
Lit_indent_quote == <<" ", " ", " ", " ", "\"">>
Lit_label_open == <<"\"", " ", "[", "l", "a", "b", "e", "l", "=", "\"">>
Lit_label_close == <<"\"", "]", ";">>
Lit_quote == <<"\"">>
Lit_arrow == <<"\"", " ", "-", ">", " ", "\"">>
Lit_indent == <<" ", " ", " ", " ">>
Lit_semicolon == <<";">>
Str_busybox == <<"b", "u", "s", "y", "b", "o", "x">>
Str_nginx == <<"n", "g", "i", "n", "x">>
Str_python3 == <<"p", "y", "t", "h", "o", "n", "3">>

\* The box-drawing characters of generate_ascii_tree, each one character of
\* a Python string, named by its code point.
Conn_last == <<"U+2514", "U+2500", "U+2500", " ">>
Conn_mid == <<"U+251C", "U+2500", "U+2500", " ">>
Prefix_bar == <<"U+2502", " ", " ", " ">>

\* Lines 167-183. (Line 169 never holds: a tree is a non-empty dict.)
RECURSIVE generate_ascii_tree(_, _, _)
generate_ascii_tree(t, prefix, is_last) ==
    LET connector == IF is_last THEN Conn_last ELSE Conn_mid
        new_prefix == prefix \o (IF is_last THEN Lit_indent ELSE Prefix_bar)
        n == Len(t.children)
        result ==
            <<prefix \o connector \o t.name>>
            \o [i \in 1..n |->
                   generate_ascii_tree(t.children[i], new_prefix, i = n)]
    IN  Join(result, NL)

\* Line 191: name.replace('-', '_').replace('.', '_')
Sanitize(name) == ReplaceChar(ReplaceChar(name, "-", "_"), ".", "_")

\* Line 195: f'"{parent}" -> "{node_name}"'
EdgeText(parent, node_name) ==
    Lit_quote \o parent \o Lit_arrow \o node_name \o Lit_quote

\* Lines 190-198: the sets nodes and edges after traverse(t, parent); the
\* parent None and the parent '' both fail the test of line 194.
RECURSIVE Traverse(_, _)
Traverse(t, parent) ==
    LET node_name == Sanitize(t.name)
        below == {Traverse(t.children[i], node_name) :
                      i \in 1..Len(t.children)}
    IN  [nodes |-> {node_name} \cup UNION {b.nodes : b \in below},
         edges |-> (IF parent # <<>> THEN {EdgeText(parent, node_name)}
                    ELSE {})
                   \cup UNION {b.edges : b \in below}]

\* Line 212: the declaration of a node.
NodeLine(node) ==
    Lit_indent_quote \o node \o Lit_label_open
    \o ReplaceChar(node, "_", "-") \o Lit_label_close

\* Line 218: the declaration of an edge.
EdgeLine(edge) == Lit_indent \o edge \o Lit_semicolon

\* Mutant of Orders: the loop comes back to its first element at the end,
\* as it would over a list that holds the element twice.
Orders_FirstTwice(S) ==
    IF S = {} THEN {<<>>}
    ELSE {f \in [1..(Cardinality(S) + 1) -> S] :
             /\ f[Cardinality(S) + 1] = f[1]
             /\ \A i, j \in 1..Cardinality(S) : i # j => f[i] # f[j]}

\* The orders in which a for loop may iterate over a Python set.
Orders(S) ==
    {f \in [1..Cardinality(S) -> S] :
        \A i, j \in 1..Cardinality(S) : i # j => f[i] # f[j]}

\* Lines 202-222, with the sets iterated in the given orders.
GraphvizText(node_order, edge_order) ==
    Join(<<Lit_digraph, Lit_rankdir, Lit_node_style, Lit_edge_style, <<>>>>
         \o [i \in 1..Len(node_order) |-> NodeLine(node_order[i])]
         \o <<<<>>>>
         \o [i \in 1..Len(edge_order) |-> EdgeLine(edge_order[i])]
         \o <<Lit_close>>,
         NL)

\* The texts generate_graphviz(t) can return.
generate_graphviz(t) ==
    LET sets == Traverse(t, None) IN
    {GraphvizText(node_order, edge_order) :
        node_order \in Orders(sets.nodes), edge_order \in Orders(sets.edges)}

\* The caller of a build renders the tree it got as a graph description.
RenderGraphviz ==
    /\ mpc = "idle"
    /\ bpc = "returned"
    /\ graphviz_code = None
    /\ \E text \in generate_graphviz(tree[1]) : graphviz_code' = Some(text)
    /\ UNCHANGED <<ascii_out, parserVars, resolverVars, builderVars, mainVars>>

\* The caller of a build renders the tree it got as an ASCII tree.
RenderAscii ==
    /\ mpc = "idle"
    /\ bpc = "returned"
    /\ ascii_out = None
    /\ ascii_out' = Some(generate_ascii_tree(tree[1], <<>>, TRUE))
    /\ UNCHANGED <<graphviz_code, parserVars, resolverVars, builderVars,
                   mainVars>>

Str_d == <<"d">>
Str_a_dash_b == <<"a", "-", "b">>
Str_a_dot_b == <<"a", ".", "b">>

\* The index text of one record: a P: line, a D: line and a blank line.
Block(name, deps) == Str_P \o name \o NL \o Str_D \o Join(deps, SP) \o NL \o NL

\* The index texts of the tree-builder specification.
CycleText == Block(Str_a, <<Str_b>>) \o Block(Str_b, <<Str_a>>)
ChainText ==
    Block(Str_a, <<Str_b>>) \o Block(Str_b, <<Str_c>>) \o Block(Str_c, <<>>)
DiamondText ==
    Block(Str_a, <<Str_b, Str_c>>) \o Block(Str_b, <<Str_d>>)
    \o Block(Str_c, <<Str_d>>) \o Block(Str_d, <<>>)
MissingText ==
    Block(Str_a, <<Str_d, Str_c>>) \o Block(Str_c, <<Str_b>>)
    \o Block(Str_b, <<>>)
DeepText ==
    Block(Str_a, <<Str_b, Str_c>>) \o Block(Str_b, <<Str_c>>)
    \o Block(Str_c, <<Str_d>>)
NamesText ==
    Block(Str_a, <<Str_a_dash_b, Str_a_dot_b, Str_a_b>>)
    \o Block(Str_a_dash_b, <<>>)

BuildTexts ==
    {CycleText, ChainText, DiamondText, MissingText, DeepText, NamesText}
BuildRoots == {Str_a, Str_b, Str_c}

\* A fresh collector and a fresh DependencyGraph, on which the caller has
\* just called build_dependency_tree(root, max_depth=max_depth).
BuildCalled(roots, depths) ==
    /\ content \in BuildTexts
    /\ ParserIdle
    /\ \E f \in Filters : config = Config(Str_a, Str_latest, f, 1, FALSE)
    /\ dependencies_cache = EmptyDict
    /\ call = None
    /\ ret = None
    /\ ncalls = 0
    /\ visited = {}
    /\ \E root \in roots, max_depth \in depths :
           /\ stack = <<Frame(root, 0, max_depth)>>
           /\ build_args = Some([package |-> root, max_depth |-> max_depth])
    /\ built = <<>>
    /\ tree = None
    /\ bpc = "building"
    /\ failed = {}
    /\ RenderIdle
    /\ MainIdle

\* The caller calls build_dependency_tree(package, max_depth=max_depth)
\* again on the DependencyGraph whose last build returned: self.visited is
\* set by __init__ (line 145) only, so the call starts with the names the
\* earlier builds left in it.
BuildAgain(package, max_depth) ==
    /\ bpc = "returned"
    /\ Len(built) + 1 < MaxBuilds
    /\ built' = Append(built, [package |-> build_args[1].package,
                               max_depth |-> build_args[1].max_depth,
                               tree |-> tree[1],
                               failed |-> failed])
    /\ stack' = <<Frame(package, 0, max_depth)>>
    /\ build_args' = Some([package |-> package, max_depth |-> max_depth])
    /\ tree' = None
    /\ bpc' = "building"
    /\ failed' = {}
    /\ UNCHANGED <<visited, content, parserLocals, resolverVars, renderVars,
                   mainVars>>

InitBuild == BuildCalled(BuildRoots, 0..MaxDepthArg)

NextBuild == BuildStep

SpecBuild == InitBuild /\ [][NextBuild]_vars

\* The interpreter goes on executing the call until it returns.
LiveBuild == SpecBuild /\ WF_vars(NextBuild)

\* Successive builds on one DependencyGraph.
InitRebuild == BuildCalled(BuildRoots, 0..MaxRenderDepth)

NextRebuild ==
    \/ BuildStep
    \/ \E package \in BuildRoots, max_depth \in 0..MaxRenderDepth :
           BuildAgain(package, max_depth)

SpecRebuild == InitRebuild /\ [][NextRebuild]_vars

\* Builds from the root a, each followed by the two renderings of its tree.
InitRender == BuildCalled({Str_a}, 0..MaxRenderDepth)

NextRender == BuildStep \/ RenderGraphviz \/ RenderAscii

SpecRender == InitRender /\ [][NextRender]_vars

\* ------------------------------------------------------------------- main

\* Line 409: the max_depth of the builds of demonstrate_multiple_packages.
DemoMaxDepth == 2

\* Lines 399-403.
test_packages == <<Str_busybox, Str_nginx, Str_python3>>

Lit_dot_suffix ==
    <<"_", "d", "e", "p", "e", "n", "d", "e", "n", "c", "i", "e", "s", ".",
      "d", "o", "t">>

\* Lines 290-318, on the fields the model keeps; repository_ok says that a
\* repository is given and, in test mode, that its file exists.
validate_config(cfg, repository_ok) ==
    /\ cfg.package # <<>>
    /\ repository_ok
    /\ ~(cfg.max_depth <= 0)

\* sys.exit(status)
Exit(status) ==
    /\ mpc' = "exited"
    /\ exit_status' = Some(status)

\* Mutant of Stage2ErrorExits: the error is printed and the run goes on.
Stage2ErrorExits_GoesOn == FALSE

\* Lines 136-138: an exception of stage 2 ends the process.
Stage2ErrorExits == TRUE

\* Lines 328-345: the arguments are parsed and validated; args_ok says
\* whether argparse accepts the command line.
Stage1(args_ok, repository_ok, cfg) ==
    /\ mpc = "stage1"
    /\ IF args_ok /\ validate_config(cfg, repository_ok)
       THEN /\ config' = cfg
            /\ mpc' = "stage2"
            /\ UNCHANGED exit_status
       ELSE /\ Exit(1)
            /\ UNCHANGED config
    /\ UNCHANGED <<dependencies_cache, call, ret, ncalls, dot_file, demo_i,
                   parserVars, builderVars, renderVars>>

\* Lines 116-138 and 347-351: the direct dependencies of the root package
\* are resolved with the configured version.
Stage2(fetch_ok) ==
    /\ mpc = "stage2"
    /\ LET r == get_package_dependencies(dependencies_cache, config.filter,
                    content, fetch_ok, config.package, config.version)
       IN  /\ dependencies_cache' = r.cache
           /\ IF r.raised /\ Stage2ErrorExits
              THEN Exit(1)
              ELSE /\ mpc' = "stage5"
                   /\ UNCHANGED exit_status
    /\ UNCHANGED <<config, call, ret, ncalls, dot_file, demo_i, parserVars,
                   builderVars, renderVars>>

\* DependencyGraph(collector) followed by the outermost call of
\* build_dependency_tree(package, max_depth=max_depth).
NewGraphBuild(package, max_depth) ==
    /\ visited' = {}
    /\ stack' = <<Frame(package, 0, max_depth)>>
    /\ tree' = None
    /\ bpc' = "building"
    /\ failed' = {}
    /\ build_args' = Some([package |-> package, max_depth |-> max_depth])
    /\ built' = <<>>

\* Lines 358-365: stage 5 makes its graph builder and starts the build.
Stage5Begin ==
    /\ mpc = "stage5"
    /\ NewGraphBuild(config.package, config.max_depth)
    /\ mpc' = "stage5_build"
    /\ UNCHANGED <<exit_status, dot_file, demo_i, parserVars, resolverVars,
                   renderVars>>

\* Lines 367-372: the graph description is generated and printed.
Stage5Graphviz ==
    /\ mpc = "stage5_build"
    /\ bpc = "returned"
    /\ \E text \in generate_graphviz(tree[1]) : graphviz_code' = Some(text)
    /\ mpc' = "stage5_write"
    /\ UNCHANGED <<ascii_out, exit_status, dot_file, demo_i, parserVars,
                   resolverVars, builderVars>>

\* Lines 374-377 and 390-393: the description is written to
\* {package}_dependencies.dot; when open or write raises, stage 5 prints
\* the error and ends.
Stage5WriteDot(write_ok) ==
    /\ mpc = "stage5_write"
    /\ IF write_ok
       THEN /\ dot_file' = Some([name |-> config.package \o Lit_dot_suffix,
                                 text |-> graphviz_code[1]])
            /\ mpc' = "stage5_ascii"
       ELSE /\ mpc' = "compare"
            /\ UNCHANGED dot_file
    /\ UNCHANGED <<exit_status, demo_i, parserVars, resolverVars, builderVars,
                   renderVars>>

\* Lines 379-388: the ASCII tree is printed when it was asked for.
Stage5Ascii ==
    /\ mpc = "stage5_ascii"
    /\ IF config.ascii_tree
       THEN ascii_out' = Some(generate_ascii_tree(tree[1], <<>>, TRUE))
       ELSE UNCHANGED ascii_out
    /\ mpc' = "demo"
    /\ demo_i' = 1
    /\ UNCHANGED <<graphviz_code, exit_status, dot_file, parserVars,
                   resolverVars, builderVars>>

\* Lines 405-409: the next package of the list gets a graph builder of its
\* own and its build starts; after the last one stage 5 is over.
DemoBegin ==
    /\ mpc = "demo"
    /\ IF demo_i <= Len(test_packages)
       THEN /\ NewGraphBuild(test_packages[demo_i], DemoMaxDepth)
            /\ mpc' = "demo_build"
       ELSE /\ mpc' = "compare"
            /\ UNCHANGED builderVars
    /\ UNCHANGED <<exit_status, dot_file, demo_i, parserVars, resolverVars,
                   renderVars>>

\* Lines 411-421: the direct dependencies of the package are resolved for
\* the statistics; an exception is printed and the loop goes on.
DemoStats(fetch_ok) ==
    /\ mpc = "demo_build"
    /\ bpc = "returned"
    /\ LET r == get_package_dependencies(dependencies_cache, config.filter,
                    content, fetch_ok, test_packages[demo_i], Str_latest)
       IN  dependencies_cache' = r.cache
    /\ demo_i' = demo_i + 1
    /\ mpc' = "demo"
    /\ UNCHANGED <<config, call, ret, ncalls, exit_status, dot_file,
                   parserVars, builderVars, renderVars>>

\* Lines 423-432 and 440: the closing notes are printed and main returns.
Compare ==
    /\ mpc = "compare"
    /\ Exit(0)
    /\ UNCHANGED <<dot_file, demo_i, parserVars, resolverVars, builderVars,
                   renderVars>>

\* The index texts and the command lines of the process specification.
MainText ==
    Str_P \o Str_a \o NL \o Str_V \o Str_1 \o NL
    \o Str_D \o Str_b \o SP \o Str_c \o NL \o NL
    \o Str_P \o Str_b \o NL \o Str_D \o Str_a \o NL
MainTexts == {MainText, CycleText}
MainConfigs ==
    {Config(p, v, f, d, t) :
        p \in {<<>>, Str_a, Str_d}, v \in {Str_latest, Str_1},
        f \in Filters, d \in 0..MaxRenderDepth, t \in BOOLEAN}

InitMain ==
    /\ content \in MainTexts
    /\ ParserIdle
    /\ ResolverIdle
    /\ BuilderIdle
    /\ RenderIdle
    /\ mpc = "stage1"
    /\ exit_status = None
    /\ dot_file = None
    /\ demo_i = 0

NextMain ==
    \/ \E args_ok \in BOOLEAN, repository_ok \in BOOLEAN, cfg \in MainConfigs :
           Stage1(args_ok, repository_ok, cfg)
    \/ \E fetch_ok \in BOOLEAN : Stage2(fetch_ok)
    \/ Stage5Begin
    \/ BuildStep
    \/ Stage5Graphviz
    \/ \E write_ok \in BOOLEAN : Stage5WriteDot(write_ok)
    \/ Stage5Ascii
    \/ DemoBegin
    \/ \E fetch_ok \in BOOLEAN : DemoStats(fetch_ok)
    \/ Compare

SpecMain == InitMain /\ [][NextMain]_vars

\* ------------------------------------------------- claims on the resolver

\* The cleaned, unfiltered dependency list the index text holds for a name.
CleanedList(package_name) == parse_apkindex(content)[package_name].dependencies

\* C3: after every resolve that returns, the cache entry of the resolved
\* pair is the cleaned, unfiltered list of the package, and the list returned
\* is that list filtered by the filter of this call (also on a cache hit).
C3_CacheUnfilteredFilterOnRead ==
    (call # None /\ ~ret[1].raised) =>
        LET cleaned == CleanedList(call[1].package_name)
            key == CacheKey(call[1].package_name, call[1].version)
        IN  /\ dependencies_cache[key] = cleaned
            /\ ret[1].value = FilterDeps(cleaned, call[1].filter)

\* C4: no resolved dependency list holds an element that comes from a token
\* starting with the shared-object marker "so:".
C4_NoSharedObjectDependency ==
    (ret # None /\ ~ret[1].raised) =>
        \A i \in 1..Len(ret[1].value) : ~StartsWith(ret[1].value[i], Str_so)

\* C15: the cache is keyed by the pair (package name, version selector): a
\* resolve of a pair that is answered from the cache returns a list of that
\* pair, the dependencies the index holds for the package of that name and
\* version (under a filter the resolver has had), never the list cached for
\* another pair, also when names or versions contain '_'.
C15_HitReturnsListOfItsPair ==
    (ret # None /\ ~ret[1].raised /\ call[1].hit) =>
        LET target_package == FindPackage(parse_apkindex(content),
                                          call[1].package_name, call[1].version)
        IN  /\ target_package # None
            /\ \E f \in Filters :
                   ret[1].value = ApplyFilter(target_package[1].dependencies, f)

Str_libfoo == <<"l", "i", "b", "f", "o", "o">>
Str_libfoo_ge_1_2_3 == Str_libfoo \o <<">", "=", "1", ".", "2", ".", "3">>

\* A token up to its first comparison operator character.
Truncated(token) ==
    LET ops == {i \in 1..Len(token) : token[i] \in VersionOps}
    IN  IF ops = {} THEN token
        ELSE SubSeq(token, 1, (CHOOSE i \in ops : \A j \in ops : i <= j) - 1)

\* The tokens of the D: lines among the lines i..j of ls, in text order.
RECURSIVE TokensIn(_, _, _)
TokensIn(ls, i, j) ==
    IF i > j THEN <<>>
    ELSE (IF StartsWith(Strip(ls[i]), Str_D)
          THEN SplitWs(DropFirst(Strip(ls[i]), 2))
          ELSE <<>>)
         \o TokensIn(ls, i + 1, j)

\* The source tokens of a package: those of the D: lines of the record the
\* index keeps for it (the one its last P: line starts).
SourceTokens(package_name) ==
    LET ls == SplitOn(content, "\n")
        starts == {i \in 1..Len(ls) : Strip(ls[i]) = Str_P \o package_name}
        first == CHOOSE i \in starts : \A k \in starts : k <= i
        later == {j \in (first + 1)..Len(ls) : StartsWith(Strip(ls[j]), Str_P)}
        last == IF later = {} THEN Len(ls)
                ELSE (CHOOSE j \in later : \A k \in later : j <= k) - 1
    IN  TokensIn(ls, first + 1, last)

\* The position of the first source token that cleans to the name.
FirstSeenAt(tokens, name) ==
    CHOOSE i \in 1..Len(tokens) :
        /\ Truncated(tokens[i]) = name
        /\ \A j \in 1..(i - 1) : Truncated(tokens[j]) # name

\* C12: "libfoo>=1.2.3" cleans to "libfoo"; a resolved list has no empty and
\* no repeated element; and in a list the call computed from the index (a
\* cache miss), each element outside the shared-object marker is a source
\* token cut at its first comparison operator character, the elements
\* stand in the order in which their names are first seen among the source
\* tokens, and every such non-empty name that passes the filter is there.
C12_CleanedFirstSeenOrder ==
    /\ CleanDep(Str_libfoo_ge_1_2_3) = Str_libfoo
    /\ (ret # None /\ ~ret[1].raised) =>
           LET value == ret[1].value
               tokens == SourceTokens(call[1].package_name)
               named == {i \in 1..Len(value) : ~StartsWith(value[i], Str_so)}
           IN  /\ \A i \in 1..Len(value) : value[i] # <<>>
               /\ \A i, j \in 1..Len(value) : i # j => value[i] # value[j]
               /\ ~call[1].hit =>
                      /\ \A i \in named :
                             \E k \in 1..Len(tokens) :
                                 Truncated(tokens[k]) = value[i]
                      /\ \A i, j \in named :
                             i < j => FirstSeenAt(tokens, value[i])
                                          < FirstSeenAt(tokens, value[j])
                      /\ \A k \in 1..Len(tokens) :
                             (/\ ~StartsWith(tokens[k], Str_so)
                              /\ Truncated(tokens[k]) # <<>>
                              /\ Contains(Truncated(tokens[k]), call[1].filter))
                                 => InSeq(Truncated(tokens[k]), value)

\* C12 witness: the resolved list of b in the text whose tokens repeat, clean
\* to one name and clean to nothing: b, so:c, c and ab, each once.
C12_RepeatedAndEmptyTokensCleaned ==
    /\ ret # None
    /\ ~ret[1].raised
    /\ content = ResolveText3
    /\ call[1].package_name = Str_b
    /\ ~call[1].hit
    /\ Len(SourceTokens(Str_b)) = 8
    /\ ret[1].value = <<Str_b, Str_so \o Str_c, Str_c, Str_ab>>

\* --------------------------------------------------- claims on the parser

\* A blank line lies between the last P: line before line n and line n.
BlankSinceRecordStart(n) ==
    \E j \in 1..(n - 1) :
        /\ Strip(lines[j]) = <<>>
        /\ \A k \in (j + 1)..(n - 1) : ~StartsWith(Strip(lines[k]), Str_P)

\* C6: a blank line terminates the current record: the record read before a
\* blank line is not changed by any line after that blank line; it stays as
\* it is, or is committed to the index as it is.
C6_BlankLineEndsRecord ==
    [][ (/\ ppc = "loop"
         /\ lineNo <= Len(lines)
         /\ current_package # None
         /\ BlankSinceRecordStart(lineNo))
        => \/ current_package' = current_package
           \/ /\ current_package[1].name \in DOMAIN packages'
              /\ packages'[current_package[1].name] = current_package[1] ]_vars

\* The lines that start a record of the given name.
RecordStarts(name) ==
    {i \in 1..Len(lines) : Strip(lines[i]) = Str_P \o name}

\* The last line of the record that starts at line i: the line before the
\* next P: line, or the last line of the text.
RecordEnd(i) ==
    LET later == {j \in (i + 1)..Len(lines) : StartsWith(Strip(lines[j]), Str_P)}
    IN  IF later = {} THEN Len(lines)
        ELSE (CHOOSE j \in later : \A k \in later : j <= k) - 1

\* The version the lines i..j give: that of the last V: line, or ''.
RecordVersion(i, j) ==
    LET vs == {k \in i..j : StartsWith(Strip(lines[k]), Str_V)}
    IN  IF vs = {} THEN <<>>
        ELSE DropFirst(Strip(lines[CHOOSE k \in vs : \A m \in vs : m <= k]), 2)

\* The tokens of the D: lines among the lines i..j, in text order.
RECURSIVE RecordTokens(_, _)
RecordTokens(i, j) ==
    IF i > j THEN <<>>
    ELSE (IF StartsWith(Strip(lines[i]), Str_D)
          THEN SplitWs(DropFirst(Strip(lines[i]), 2))
          ELSE <<>>)
         \o RecordTokens(i + 1, j)

\* The later record of a name: the one its last P: line starts.
LaterRecord(name) ==
    LET i == CHOOSE k \in RecordStarts(name) :
                 \A m \in RecordStarts(name) : m <= k
    IN  [name |-> name,
         version |-> RecordVersion(i + 1, RecordEnd(i)),
         dependencies |-> AddDeps(<<>>, RecordTokens(i + 1, RecordEnd(i)))]

\* C11: the parsed index holds one entry per declared name, keyed by that
\* name, and the entry of a name is its later record: the version and the
\* dependencies of the last record that declares the name.
C11_LastRecordWins ==
    /\ \A n \in DOMAIN packages : packages[n].name = n
    /\ ppc = "done" =>
           /\ DOMAIN packages = {n \in DOMAIN packages : RecordStarts(n) # {}}
           /\ \A i \in 1..Len(lines) :
                  StartsWith(Strip(lines[i]), Str_P)
                      => DropFirst(Strip(lines[i]), 2) \in DOMAIN packages
           /\ \A n \in DOMAIN packages : packages[n] = LaterRecord(n)

\* C11 witness: a text that declares the name a twice has been parsed, and
\* the two records differ.
C11_DeclaredTwice ==
    /\ ppc = "done"
    /\ Cardinality(RecordStarts(Str_a)) = 2
    /\ \E i \in RecordStarts(Str_a) :
           /\ RecordEnd(i) < Len(lines)
           /\ [name |-> Str_a,
               version |-> RecordVersion(i + 1, RecordEnd(i)),
               dependencies |->
                   AddDeps(<<>>, RecordTokens(i + 1, RecordEnd(i)))]
                  # packages[Str_a]

\* ---------------------------------------------- claims on the tree builder

\* The arguments of the outermost build call.
RootPackage == build_args[1].package
RootMaxDepth == build_args[1].max_depth

\* The index the collector parses from the repository text.
Index == parse_apkindex(content)

\* The dependencies a node of this build is expanded with: those the index
\* gives under the configured filter, and none when its resolution failed.
ExpectedDeps(package) ==
    IF package \in failed \/ package \notin DOMAIN Index THEN <<>>
    ELSE ApplyFilter(Index[package].dependencies, config.filter)

\* The nodes of a tree in depth-first pre-order.
RECURSIVE Preorder(_)
RECURSIVE PreorderAll(_)
Preorder(t) == <<t>> \o PreorderAll(t.children)
PreorderAll(ts) ==
    IF ts = <<>> THEN <<>> ELSE Preorder(Head(ts)) \o PreorderAll(Tail(ts))

\* The depth-first expansion of section 4.4 over ExpectedDeps, with one
\* visited set threaded through the whole build: the tree and the set after.
RECURSIVE ExpectedBuild(_, _, _, _)
RECURSIVE ExpectedChildren(_, _, _, _)
ExpectedBuild(package, depth, max_depth, vis) ==
    IF depth > max_depth \/ package \in vis
    THEN [tree |-> Leaf(package), visited |-> vis]
    ELSE LET r == ExpectedChildren(ExpectedDeps(package), depth + 1,
                                   max_depth, vis \cup {package})
         IN  [tree |-> Node(package, r.children), visited |-> r.visited]
ExpectedChildren(deps, depth, max_depth, vis) ==
    IF deps = <<>> THEN [children |-> <<>>, visited |-> vis]
    ELSE LET h == ExpectedBuild(Head(deps), depth, max_depth, vis)
             t == ExpectedChildren(Tail(deps), depth, max_depth, h.visited)
         IN  [children |-> <<h.tree>> \o t.children, visited |-> t.visited]

\* C1: every build call on a fresh DependencyGraph returns, whatever the
\* index (cycles included), the root and max_depth >= 0.
C1_BuildTerminates == <>(bpc # "building")

\* C1 witness: the build of the cycle a -> b, b -> a from a with max_depth 5
\* has returned.
C1_CycleBuildReturned ==
    /\ bpc = "returned"
    /\ content = CycleText
    /\ RootPackage = Str_a
    /\ RootMaxDepth = 5
    /\ Str_b \in visited

\* C2 as stated: with max_depth = 0 the build returns the single leaf
\* {name: root, children: []}.
C2_DepthZeroSingleLeaf ==
    (bpc = "returned" /\ RootMaxDepth = 0) => tree[1] = Leaf(RootPackage)

\* C2 amended: with max_depth = 0 the root (depth 0 does not exceed 0) is
\* expanded, and each of its dependencies is a childless leaf: the tree is
\* the root over one leaf per resolved dependency, in resolver order.
C2_DepthZeroRootOverLeaves ==
    (bpc = "returned" /\ RootMaxDepth = 0) =>
        LET deps == ExpectedDeps(RootPackage) IN
        tree[1] = Node(RootPackage, [i \in 1..Len(deps) |-> Leaf(deps[i])])

\* C2 witness: a build with max_depth = 0 returned a root with children.
C2_DepthZeroWithChildren ==
    /\ bpc = "returned"
    /\ RootMaxDepth = 0
    /\ tree[1].children # <<>>

\* C8: a failing resolution never makes the build raise; the failing node
\* is a leaf and the rest of the tree is what the expansion gives with that
\* node having no dependencies.
C8_FailureBecomesLeaf ==
    /\ bpc # "raised"
    /\ bpc = "returned" =>
           tree[1] = ExpectedBuild(RootPackage, 0, RootMaxDepth, {}).tree

\* C8 witness: a build returned in which the resolution of a child of the
\* root failed and a later sibling of that child was expanded.
C8_SiblingExpandedAfterFailure ==
    /\ bpc = "returned"
    /\ \E i, j \in 1..Len(tree[1].children) :
           /\ i < j
           /\ tree[1].children[i].name \in failed
           /\ tree[1].children[i].children = <<>>
           /\ tree[1].children[j].children # <<>>

\* C9 as stated: of the occurrences of one name in the tree, in depth-first
\* order, every one after the first is a childless leaf.
C9_FirstEncounterExpanded ==
    bpc = "returned" =>
        LET nodes == Preorder(tree[1]) IN
        \A i, j \in 1..Len(nodes) :
            (i < j /\ nodes[i].name = nodes[j].name)
                => nodes[j].children = <<>>

\* C9 amended: a name is expanded at most once: every occurrence after one
\* that carries children is a childless leaf (an occurrence beyond
\* max_depth is a leaf that does not mark the name, so the expanded
\* occurrence need not be the first); and the cycle a -> b, b -> a built
\* from a with max_depth 5 gives a -> [b -> [a]].
C9_ExpandedAtMostOnce ==
    bpc = "returned" =>
        /\ LET nodes == Preorder(tree[1]) IN
           \A i, j \in 1..Len(nodes) :
               (/\ i < j
                /\ nodes[i].name = nodes[j].name
                /\ nodes[i].children # <<>>)
                   => nodes[j].children = <<>>
        /\ (/\ content = CycleText
            /\ RootPackage = Str_a
            /\ RootMaxDepth = 5
            /\ config.filter = <<>>
            /\ failed = {})
               => tree[1] = Node(Str_a, <<Node(Str_b, <<Leaf(Str_a)>>)>>)

\* C9 witness: the cycle was built from a with max_depth 5 and the second
\* occurrence of a is a leaf below b.
C9_CycleTree ==
    /\ bpc = "returned"
    /\ RootMaxDepth = 5
    /\ tree[1] = Node(Str_a, <<Node(Str_b, <<Leaf(Str_a)>>)>>)

\* C14: the visited-name set is scoped to one tree build: a build of the
\* same root with the same max_depth as an earlier build on the same
\* DependencyGraph, over the same index and with no failing resolution in
\* either, returns the tree the earlier build returned.
C14_SuccessiveBuildsEqual ==
    (bpc = "returned" /\ failed = {}) =>
        \A i \in 1..Len(built) :
            (/\ built[i].package = RootPackage
             /\ built[i].max_depth = RootMaxDepth
             /\ built[i].failed = {})
                => tree[1] = built[i].tree

\* ------------------------------------------------- claims on the renderers

EndsWith(s, p) ==
    Len(s) >= Len(p) /\ SubSeq(s, Len(s) - Len(p) + 1, Len(s)) = p

\* The package names that occur in a tree.
NamesIn(t) == {n.name : n \in Range(Preorder(t))}

\* A line of the graph description that declares a node.
IsNodeDecl(line) ==
    StartsWith(line, Lit_indent_quote) /\ Contains(line, Lit_label_open)

\* The chain a -> b -> c as a tree.
ChainTree == Node(Str_a, <<Node(Str_b, <<Leaf(Str_c)>>)>>)

\* C5: the ASCII rendering starts with the root's name without a connector,
\* and the chain a -> b -> c renders as the lines "a", "└── b", "    └── c".
C5_RootWithoutConnector ==
    ascii_out # None =>
        LET out == SplitOn(ascii_out[1], "\n") IN
        /\ out[1] = tree[1].name
        /\ tree[1] = ChainTree =>
               out = <<Str_a,
                       Conn_last \o Str_b,
                       Lit_indent \o Conn_last \o Str_c>>

\* C7: the graph description has exactly one node declaration per distinct
\* package name of the tree, labelled with that name as it is.
C7_OneDeclarationPerName ==
    graphviz_code # None =>
        LET out == SplitOn(graphviz_code[1], "\n")
            decls == {i \in 1..Len(out) : IsNodeDecl(out[i])}
        IN  /\ Cardinality(decls) = Cardinality(NamesIn(tree[1]))
            /\ \A name \in NamesIn(tree[1]) :
                   Cardinality({i \in decls :
                       EndsWith(out[i], Lit_label_open \o name
                                            \o Lit_label_close)}) = 1

\* A line of the graph description that declares an edge.
IsEdgeDecl(line) ==
    StartsWith(line, Lit_indent_quote) /\ Contains(line, Lit_arrow)

\* The diamond a -> b, a -> c, b -> d, c -> d as the builder returns it: d
\* is expanded below b and is a leaf below c.
DiamondTree ==
    Node(Str_a, <<Node(Str_b, <<Leaf(Str_d)>>), Node(Str_c, <<Leaf(Str_d)>>)>>)

\* The pairs (parent name, child name) of a tree, as the description
\* writes them.
EdgesIn(t) ==
    UNION {{EdgeLine(EdgeText(Sanitize(n.name), Sanitize(n.children[i].name))) :
               i \in 1..Len(n.children)} : n \in Range(Preorder(t))}

\* C13: no node declaration and no edge declaration of the graph
\* description is emitted twice: the edge declarations are, each once, the
\* parent-child pairs of the tree, however often a pair or a package occurs
\* in it; and the description of the diamond built from a has exactly the
\* 4 node declarations of a, b, c, d and the 4 edge declarations a -> b,
\* a -> c, b -> d, c -> d.
C13_NoDeclarationTwice ==
    graphviz_code # None =>
        LET out == SplitOn(graphviz_code[1], "\n")
            nodeDecls == {i \in 1..Len(out) : IsNodeDecl(out[i])}
            edgeDecls == {i \in 1..Len(out) : IsEdgeDecl(out[i])}
        IN  /\ \A i, j \in nodeDecls \cup edgeDecls : i # j => out[i] # out[j]
            /\ {out[i] : i \in edgeDecls} = EdgesIn(tree[1])
            /\ Cardinality(edgeDecls) = Cardinality(EdgesIn(tree[1]))
            /\ Cardinality(nodeDecls)
                   = Cardinality({Sanitize(n) : n \in NamesIn(tree[1])})
            /\ (/\ content = DiamondText
                /\ RootPackage = Str_a
                /\ RootMaxDepth >= 2
                /\ config.filter = <<>>
                /\ failed = {})
                   => /\ tree[1] = DiamondTree
                      /\ Cardinality(nodeDecls) = 4
                      /\ Cardinality(edgeDecls) = 4
                      /\ {out[i] : i \in nodeDecls}
                             = {NodeLine(n) : n \in {Str_a, Str_b, Str_c, Str_d}}
                      /\ {out[i] : i \in edgeDecls}
                             = {EdgeLine(EdgeText(e[1], e[2])) :
                                   e \in {<<Str_a, Str_b>>, <<Str_a, Str_c>>,
                                          <<Str_b, Str_d>>, <<Str_c, Str_d>>}}

\* C13 witness: the diamond was built from a and rendered; d occurs twice
\* in the tree.
C13_DiamondRendered ==
    /\ graphviz_code # None
    /\ content = DiamondText
    /\ tree[1] = DiamondTree
    /\ Len(Preorder(tree[1])) = 5

\* ------------------------------------------------- claims on the process

\* The root package is in the cache under the configured version: stage 2
\* resolved it.
RootResolved ==
    CacheKey(config.package, config.version) \in DOMAIN dependencies_cache

\* Stage 2 has run and failed to resolve the root package.
Stage2Failed ==
    /\ mpc \notin {"idle", "stage1", "stage2"}
    /\ config # NoConfig
    /\ ~RootResolved

\* C10: when the resolution of the root package fails in stage 2, the
\* process has exited with status 1 and has produced neither the .dot file
\* nor a graph description nor an ASCII tree.
C10_RootFailureIsFatal ==
    Stage2Failed =>
        /\ mpc = "exited"
        /\ exit_status = Some(1)
        /\ dot_file = None
        /\ graphviz_code = None
        /\ ascii_out = None

\* C10 witness: a run with a valid configuration that ended in stage 2.
C10_ExitedInStage2 ==
    /\ Stage2Failed
    /\ mpc = "exited"

====
